---- MODULE Spec2Model ----
(***************************************************************************)
(* dff_calc (src/dff_calc/df_f_calculation.py): dF/F of calcium traces.    *)
(*                                                                         *)
(* One call of dff_calc is modelled as a state machine whose program       *)
(* counter walks the statements of the function body; every helper         *)
(* (_apply_units_and_corrections, _calc_f0, _calc_dff_unfiltered,          *)
(* _filter_dff) and every numpy / pandas primitive they use is an          *)
(* operator.                                                               *)
(*                                                                         *)
(* Numbers.  A float is modelled by the exact quantity                     *)
(*        h / eps  +  a  +  l * eps                                        *)
(* with h, a, l rationals and eps = np.finfo(float).eps, the only tiny     *)
(* quantity the code introduces.  Terms of order eps^2 and beyond are      *)
(* below the resolution of float64 and are dropped.  A float is a record   *)
(* [k, h, a, l] whose kind k is "num", "nan" or "inf" (an infinity of      *)
(* either sign).  A rational is a pair <<n, d>> in lowest terms, d > 0.    *)
(*                                                                         *)
(* The smoother multiplies by powers of 0.5^(1/halflife).  With a          *)
(* half-life of n/d samples (lowest terms) these are powers of             *)
(* r = 0.5^(1/n), and the smoothed values lie in the field Q(r), r^n = 1/2.*)
(* An element c1 + c2*r + .. + cn*r^(n-1) of Q(r) is the sequence          *)
(* <<c1, .., cn>> of its rational coefficients; a smoothed value is a      *)
(* record [k, h, a, l] as above whose h, a, l are such sequences.          *)
(*                                                                         *)
(* int(fps * tau) is computed as the code computes it: tau and the product *)
(* are rounded to binary64 (53-bit significands, ties to even) before the  *)
(* truncation.  A significand is a sequence of bits, lowest bit first.     *)
(***************************************************************************)
EXTENDS Integers, Sequences, FiniteSets

VARIABLES
    args,                 \* the arguments of the call, as the caller passed them
    data,                 \* parameter data, rebound to -data at line 52
    tau_0, tau_1, tau_2,  \* parameters (seconds), rebound to samples at line 48
    min_per,              \* local, set at line 48
    f0,                   \* local: the baseline DataFrame
    unfiltered_dff,       \* local: the raw ratio DataFrame
    dff,                  \* local: the smoothed DataFrame
    result,               \* the returned ndarray (its rows)
    pc                    \* position in the body of dff_calc

vars == <<args, data, tau_0, tau_1, tau_2, min_per, f0, unfiltered_dff, dff,
          result, pc>>

(***************************************************************************)
(* Bounds of the explored inputs.                                          *)
(***************************************************************************)
\* longest trace (samples)
MaxT == 3
\* sample values of the input traces
Vals == {0, 2}
\* row counts of the 2-D inputs
Channels == {1, 2}
\* frame rates (Hz): min_per is 1, 2, 3
FpsSet == {10, 20, 30}
\* tau_1 in seconds: windows of 1, 2, 3 samples
Tau1Set == {<<1, 20>>, <<1, 10>>}
\* tau_2 in seconds: windows of 1, 2, 3, 4, 6 samples
Tau2Set == {<<1, 20>>, <<1, 10>>, <<1, 5>>}
\* half-lives fps * tau_0 in samples: tau_0 = 1 / fps and 3 / (2 * fps)
\* seconds
HalfLives == {<<1, 1>>, <<3, 2>>}

(***************************************************************************)
(* Rational arithmetic.                                                    *)
(***************************************************************************)
Abs(n) == IF n < 0 THEN -n ELSE n

Max(a, b) == IF a >= b THEN a ELSE b

RECURSIVE GCD(_, _)
GCD(a, b) == IF b = 0 THEN a ELSE GCD(b, a % b)

Rat(n, d) ==
    LET g == GCD(Abs(n), Abs(d))
        s == IF d < 0 THEN -1 ELSE 1
    IN  <<(s * n) \div g, (s * d) \div g>>

R0 == <<0, 1>>
R1 == <<1, 1>>
RInt(n) == <<n, 1>>
\* sums over the least common denominator, products cancelled crosswise
RAdd(p, q) ==
    IF p[1] = 0 THEN q
    ELSE IF q[1] = 0 THEN p
    ELSE IF p[2] = q[2] THEN Rat(p[1] + q[1], p[2])
    ELSE LET g == GCD(p[2], q[2])
         IN  Rat(p[1] * (q[2] \div g) + q[1] * (p[2] \div g),
                 (p[2] \div g) * q[2])
RNeg(p) == <<-p[1], p[2]>>
RSub(p, q) == RAdd(p, RNeg(q))
RMul(p, q) ==
    IF p[1] = 0 \/ q[1] = 0 THEN R0
    ELSE IF p = R1 THEN q
    ELSE IF q = R1 THEN p
    ELSE LET g1 == GCD(Abs(p[1]), q[2])
             g2 == GCD(Abs(q[1]), p[2])
         IN  <<(p[1] \div g1) * (q[1] \div g2), (p[2] \div g2) * (q[2] \div g1)>>
RInv(q) == IF q[1] < 0 THEN <<-q[2], -q[1]>> ELSE <<q[2], q[1]>>
RDiv(p, q) == RMul(p, RInv(q))
RLess(p, q) == p[1] * q[2] < q[1] * p[2]
RLeq(p, q) == p[1] * q[2] <= q[1] * p[2]

RECURSIVE Pow2(_)
Pow2(k) == IF k = 0 THEN 1 ELSE 2 * Pow2(k - 1)

\* int(x) of a rational: truncation toward zero
Trunc(p) == IF p[1] >= 0 THEN p[1] \div p[2] ELSE -((-p[1]) \div p[2])

(***************************************************************************)
(* binary64.  A positive float is [m, x]: the number m * 2^x, with m a     *)
(* natural number of 53 significant bits, written as a sequence of limbs   *)
(* of 13 bits, lowest first (53 = 1 + 4 * 13).  Arguments: rationals with  *)
(* denominators below 2^18 and integers below 2^17, so that every product  *)
(* stays below 2^31.                                                       *)
(***************************************************************************)
Limb == 8192

RECURSIVE LimbsOfNat(_)
LimbsOfNat(n) ==
    IF n = 0 THEN <<>> ELSE <<n % Limb>> \o LimbsOfNat(n \div Limb)

RECURSIVE NatOfLimbs(_)
NatOfLimbs(limbs) ==
    IF limbs = <<>> THEN 0 ELSE Head(limbs) + Limb * NatOfLimbs(Tail(limbs))

\* limbs + 1
RECURSIVE IncrementLimbs(_)
IncrementLimbs(limbs) ==
    IF limbs = <<>> THEN <<1>>
    ELSE IF Len(limbs) = 1 \/ Head(limbs) + 1 < Limb
        THEN <<Head(limbs) + 1>> \o Tail(limbs)
    ELSE <<0>> \o IncrementLimbs(Tail(limbs))

\* limbs * k + carry
RECURSIVE TimesInt(_, _, _)
TimesInt(limbs, k, carry) ==
    IF limbs = <<>> THEN LimbsOfNat(carry)
    ELSE LET v == Head(limbs) * k + carry
         IN  <<v % Limb>> \o TimesInt(Tail(limbs), k, v \div Limb)

\* the number of bits of n
RECURSIVE BitLength(_)
BitLength(n) == IF n = 0 THEN 0 ELSE 1 + BitLength(n \div 2)

\* bit i (the lowest is bit 1) of the number given by its limbs
Bit(limbs, i) ==
    IF i > 13 * Len(limbs) THEN 0
    ELSE (limbs[((i - 1) \div 13) + 1] \div Pow2((i - 1) % 13)) % 2

\* e with 2^e <= n / d < 2^(e + 1), for n, d > 0
RECURSIVE Exponent(_, _)
Exponent(n, d) ==
    IF n >= 2 * d THEN Exponent(n, 2 * d) + 1
    ELSE IF n < d THEN Exponent(2 * n, d) - 1
    ELSE 0

\* the first k limbs of rem / d after the binary point, lowest first, and
\* the remainder left, for 0 <= rem < d
RECURSIVE LongDivision(_, _, _)
LongDivision(rem, d, k) ==
    IF k = 0 THEN <<<<>>, rem>>
    ELSE LET v == rem * Limb
             rest == LongDivision(v % d, d, k - 1)
         IN  <<Append(rest[1], v \div d), rest[2]>>

\* the binary64 nearest to the rational q > 0 (ties to even)
Float64(q) ==
    LET e == Exponent(q[1], q[2])
        n == IF e < 0 THEN q[1] * Pow2(-e) ELSE q[1]
        d == IF e > 0 THEN q[2] * Pow2(e) ELSE q[2]
        div == LongDivision(n - d, d, 4)
        m == div[1] \o <<1>>
        up == 2 * div[2] > d \/ (2 * div[2] = d /\ m[1] % 2 = 1)
    IN  [m |-> IF up THEN IncrementLimbs(m) ELSE m, x |-> e - 52]

\* the number of bits of the number given by its limbs
BitsOfLimbs(p) == 13 * (Len(p) - 1) + BitLength(p[Len(p)])

\* whether rounding p to its 53 highest bits (to nearest, ties to even) goes
\* up, where drop is the number of bits below them and low the value of the
\* two lowest limbs of p
RoundsUp(low, drop) ==
    /\ drop > 0
    /\ \/ 2 * (low % Pow2(drop)) > Pow2(drop)
       \/ /\ 2 * (low % Pow2(drop)) = Pow2(drop)
          /\ (low \div Pow2(drop)) % 2 = 1

\* the integer part of p, which has s bits after the binary point
WholePart(p, s) ==
    IF s \div 13 >= Len(p) THEN 0
    ELSE NatOfLimbs(SubSeq(p, (s \div 13) + 1, Len(p))) \div Pow2(s % 13)

\* the integer part of the binary64 nearest to p, which has s bits after the
\* binary point: that of p, plus one when the rounding goes up and carries
\* through every kept bit after the point
IntOfRounded(p, s, drop) ==
    IF RoundsUp(p[1] + Limb * p[2], drop) /\ \A i \in (drop + 1)..s : Bit(p, i) = 1
        THEN WholePart(p, s) + 1
    ELSE WholePart(p, s)

\* the exact product of k and the float f, as limbs and the number of bits
\* after the binary point
ExactProduct(k, f) == <<TimesInt(f.m, k, 0), -f.x>>

\* int(k * q) for an integer k > 0 and a float argument q > 0 written as the
\* rational q: the exact product of k and the binary64 of q, rounded to a
\* binary64, then truncated
IntOfProductPositive(k, q) ==
    LET p == ExactProduct(k, Float64(q))
    IN  IntOfRounded(p[1], p[2], Max(BitsOfLimbs(p[1]) - 53, 0))

\* int(k * q), truncation toward zero
IntOfProduct(k, q) ==
    IF k = 0 \/ q[1] = 0 THEN 0
    ELSE IF (k < 0) = (q[1] < 0) THEN IntOfProductPositive(Abs(k), <<Abs(q[1]), q[2]>>)
    ELSE -IntOfProductPositive(Abs(k), <<Abs(q[1]), q[2]>>)

(***************************************************************************)
(* Floats: h/eps + a + l*eps, or NaN.                                      *)
(***************************************************************************)
NaN == [k |-> "nan", h |-> R0, a |-> R0, l |-> R0]
Inf == [k |-> "inf", h |-> R0, a |-> R0, l |-> R0]

Num(r) == [k |-> "num", h |-> R0, a |-> r, l |-> R0]
Zero == Num(R0)
FromInt(n) == Num(RInt(n))
IsFinite(v) == v.k = "num"

VAdd(u, v) ==
    IF u = NaN \/ v = NaN THEN NaN
    ELSE IF u = Inf \/ v = Inf THEN Inf
    ELSE [k |-> "num", h |-> RAdd(u.h, v.h), a |-> RAdd(u.a, v.a),
          l |-> RAdd(u.l, v.l)]

VNeg(v) ==
    IF ~IsFinite(v) THEN v
    ELSE [k |-> "num", h |-> RNeg(v.h), a |-> RNeg(v.a), l |-> RNeg(v.l)]

VSub(u, v) == VAdd(u, VNeg(v))

\* a float times / divided by an exact rational
VScale(r, v) ==
    IF ~IsFinite(v) THEN v
    ELSE [k |-> "num", h |-> RMul(r, v.h), a |-> RMul(r, v.a),
          l |-> RMul(r, v.l)]

VLess(u, v) ==
    \/ RLess(u.h, v.h)
    \/ u.h = v.h /\ RLess(u.a, v.a)
    \/ u.h = v.h /\ u.a = v.a /\ RLess(u.l, v.l)

VLeq(u, v) == u = v \/ VLess(u, v)

\* numpy true division n / d.  The operands are a trace sample minus a
\* baseline and a baseline: neither has a part of order 1/eps.
VDiv(n, d) ==
    IF n = NaN \/ d = NaN THEN NaN
    ELSE IF n = Inf THEN (IF d = Inf THEN NaN ELSE Inf)
    ELSE IF d = Inf THEN Zero
    ELSE IF d.a # R0
        THEN [k |-> "num", h |-> R0,
              a |-> RDiv(n.a, d.a),
              l |-> RDiv(RSub(RMul(n.l, d.a), RMul(n.a, d.l)), RMul(d.a, d.a))]
    ELSE IF d.l # R0
        THEN [k |-> "num", h |-> RDiv(n.a, d.l), a |-> RDiv(n.l, d.l), l |-> R0]
    ELSE IF n = Zero THEN NaN
    ELSE Inf

\* np.finfo(float).eps
eps == [k |-> "num", h |-> R0, a |-> R0, l |-> R1]

\* a slip: the baseline without the added eps
AddEpsOmitted(x) == x

\* x + eps in binary64 (round to nearest, ties to even), x a window mean.
\* Below 2 in magnitude, and at -2, the sum is a float.  From 4 on the
\* floats are 4 * eps apart and the sum rounds back to x.  In between they
\* are 2 * eps apart and the sum is a tie: it is x when the significand of x
\* is even and the next float, x + 2 * eps, when it is odd.
AddEps(x) ==
    LET mag == <<Abs(x.a[1]), x.a[2]>>
    IN  IF x = NaN THEN NaN
        ELSE IF RLess(mag, RInt(2)) \/ x.a = RInt(-2) THEN VAdd(x, eps)
        ELSE IF RLeq(RInt(4), mag) THEN x
        ELSE IF Float64(mag).m[1] % 2 = 0 THEN x
        ELSE VAdd(x, VScale(RInt(2), eps))

(***************************************************************************)
(* numpy arrays.  An ndarray is [ndim |-> 1, val |-> <<x1, ..>>] or        *)
(* [ndim |-> 2, val |-> <<row1, ..>>]; a DataFrame is the sequence of its  *)
(* rows (index = time), each row the sequence of its columns.              *)
(***************************************************************************)
\* the same sequence (table), written out as a tuple (of tuples)
Tuple(row) == row \o <<>>

Matrix(m) == Tuple([i \in 1..Len(m) |-> Tuple(m[i])])

Arr1(xs) == [ndim |-> 1, val |-> xs]
Arr2(rows) == [ndim |-> 2, val |-> rows]

\* the transpose of a sequence of rows of equal length
Transpose(m) ==
    Matrix([j \in 1..Len(m[1]) |-> [i \in 1..Len(m) |-> m[i][j]]])

\* ndarray.T: a 1-D array is its own transpose
T(x) == IF x.ndim = 1 THEN x ELSE Arr2(Transpose(x.val))

\* -data
Negate(x) ==
    IF x.ndim = 1
        THEN Arr1([i \in 1..Len(x.val) |-> -x.val[i]])
        ELSE Arr2([i \in 1..Len(x.val) |->
                     [j \in 1..Len(x.val[i]) |-> -x.val[i][j]]])

\* pd.DataFrame(x): a 1-D array of length n becomes an n x 1 frame
DataFrame(x) ==
    IF x.ndim = 1
        THEN Matrix([i \in 1..Len(x.val) |-> <<FromInt(x.val[i])>>])
        ELSE Matrix([i \in 1..Len(x.val) |->
                       [j \in 1..Len(x.val[i]) |-> FromInt(x.val[i][j])]])

NRows(fr) == Len(fr)
NCols(fr) == Len(fr[1])
Col(fr, j) == Tuple([i \in 1..NRows(fr) |-> fr[i][j]])

\* the frame whose columns are given
FromCols(cols) == Transpose(cols)

\* ndarray.ravel() of a 2-D array: row-major
Ravel(m) ==
    LET w == Len(m[1])
    IN  Tuple([n \in 1..(Len(m) * w) |->
                    m[((n - 1) \div w) + 1][((n - 1) % w) + 1]])

\* DataFrame.fillna(0): the parts of a NaN are zeros, so the 0 that replaces
\* it is the NaN with the kind "num"
FillNa(fr) ==
    Matrix([i \in 1..NRows(fr) |->
        [j \in 1..NCols(fr) |->
            IF fr[i][j].k = "nan" THEN [fr[i][j] EXCEPT !.k = "num"]
            ELSE fr[i][j]]])

(***************************************************************************)
(* pandas window operations, on one column (a sequence over time).         *)
(***************************************************************************)
RECURSIVE SumRange(_, _, _)
SumRange(col, lo, hi) ==
    IF lo > hi THEN Zero ELSE VAdd(col[hi], SumRange(col, lo, hi - 1))

\* rolling(window=w, win_type="boxcar").mean(): center defaults to False, so
\* the window is the w samples ending at t; min_periods defaults to w.
BoxcarMean(col, w) ==
    Tuple([t \in 1..Len(col) |->
                IF t < w THEN NaN
                ELSE VScale(<<1, w>>, SumRange(col, t - w + 1, t))])

RECURSIVE MinOver(_, _)
MinOver(col, idx) ==
    LET i == CHOOSE x \in idx : \A y \in idx : x >= y
        rest == idx \ {i}
    IN  IF rest = {} THEN col[i]
        ELSE LET m == MinOver(col, rest)
             IN  IF VLess(col[i], m) THEN col[i] ELSE m

\* a slip: the rolling minimum without min_periods (one observation is enough)
RollingMinAnyObservation(col, w, minp) ==
    Tuple([t \in 1..Len(col) |->
                LET valid == {i \in Max(1, t - w + 1)..t : col[i] # NaN}
                IN  IF valid # {} THEN MinOver(col, valid) ELSE NaN])

\* rolling(window=w, min_periods=minp).min(): the window is the w entries
\* ending at t; the result is NaN unless minp of them are not NaN.
RollingMin(col, w, minp) ==
    Tuple([t \in 1..Len(col) |->
                LET valid == {i \in Max(1, t - w + 1)..t : col[i] # NaN}
                IN  IF Cardinality(valid) >= minp /\ valid # {}
                        THEN MinOver(col, valid) ELSE NaN])

\* Rolling.validate: "min_periods {minp} must be <= window {w}"
RollingRaises(w, minp) == minp > w

(***************************************************************************)
(* The field Q(r), r = 0.5^(1/n): sequences of n rational coefficients.    *)
(***************************************************************************)
AlgOfRat(q, n) == Tuple([i \in 1..n |-> IF i = 1 THEN q ELSE R0])
AlgZero(n) == AlgOfRat(R0, n)
AlgOne(n) == AlgOfRat(R1, n)

AlgAdd(x, y) == Tuple([i \in 1..Len(x) |-> RAdd(x[i], y[i])])

AlgScale(q, x) == Tuple([i \in 1..Len(x) |-> RMul(q, x[i])])

\* x * r: the coefficient of r^(n-1) comes back as half a unit
TimesRoot(x) ==
    LET n == Len(x)
    IN  Tuple([i \in 1..n |->
                    IF i = 1 THEN RMul(<<1, 2>>, x[n]) ELSE x[i - 1]])

\* the coefficient of r^(i-1) in x * y, summed over the terms x[j] * y[k]
\* from j on: r^(j-1) * r^(k-1) is r^(i-1), or r^(i-1+n) = r^(i-1) / 2
RECURSIVE Convolution(_, _, _, _)
Convolution(x, y, i, j) ==
    IF j > Len(x) THEN R0
    ELSE LET term == IF j <= i THEN RMul(x[j], y[i - j + 1])
                     ELSE RMul(<<1, 2>>, RMul(x[j], y[Len(x) + i - j + 1]))
         IN  RAdd(term, Convolution(x, y, i, j + 1))

AlgMul(x, y) ==
    IF Len(x) = 1 THEN <<RMul(x[1], y[1])>>
    ELSE IF x = AlgZero(Len(x)) \/ y = AlgZero(Len(y)) THEN AlgZero(Len(x))
    ELSE Tuple([i \in 1..Len(x) |-> Convolution(x, y, i, 1)])

\* x, x * r, .., x * r^(j-1)
RECURSIVE RootMultiples(_, _)
RootMultiples(x, j) ==
    IF j = 1 THEN <<x>>
    ELSE LET before == RootMultiples(x, j - 1)
         IN  Append(before, TimesRoot(before[j - 1]))

\* Gauss-Jordan elimination on the n rows of an n x (n + 1) system, from
\* column k on
RECURSIVE Eliminate(_, _)
Eliminate(rows, k) ==
    LET n == Len(rows)
    IN  IF k > n THEN rows
        ELSE LET p == CHOOSE i \in k..n :
                          /\ rows[i][k] # R0
                          /\ \A i2 \in k..(i - 1) : rows[i2][k] = R0
                 piv == Tuple([j \in 1..(n + 1) |->
                                    RDiv(rows[p][j], rows[p][k])])
                 next == [i \in 1..n |->
                            IF i = k THEN piv
                            ELSE LET rw == IF i = p THEN rows[k] ELSE rows[i]
                                 IN  [j \in 1..(n + 1) |->
                                        RSub(rw[j], RMul(rw[k], piv[j]))]]
             IN  Eliminate(Matrix(next), k + 1)

\* 1 / (a + b*r), r^2 = 1/2: (a - b*r) / (a^2 - b^2 / 2)
AlgInv2(x) ==
    LET norm == RSub(RMul(x[1], x[1]), RMul(<<1, 2>>, RMul(x[2], x[2])))
    IN  <<RDiv(x[1], norm), RDiv(RNeg(x[2]), norm)>>

\* 1 / (a + b*r + c*r^2), r^3 = 1/2:
\* ((a^2 - bc/2) + (c^2/2 - ab)*r + (b^2 - ac)*r^2)
\*     / (a^3 + b^3/2 + c^3/4 - 3abc/2)
AlgInv3(x) ==
    LET a == x[1]
        b == x[2]
        c == x[3]
        h == <<1, 2>>
        aa == RMul(a, a)
        bb == RMul(b, b)
        cc == RMul(c, c)
        bc == RMul(b, c)
        norm == RAdd(RAdd(RMul(aa, a), RMul(h, RMul(bb, b))),
                     RSub(RMul(<<1, 4>>, RMul(cc, c)),
                          RMul(<<3, 2>>, RMul(a, bc))))
    IN  <<RDiv(RSub(aa, RMul(h, bc)), norm),
          RDiv(RSub(RMul(h, cc), RMul(a, b)), norm),
          RDiv(RSub(bb, RMul(a, c)), norm)>>

\* 1 / x for x # 0; in general the solution z of z[1]*x + z[2]*x*r + .. = 1
AlgInv(x) ==
    LET n == Len(x)
        cols == RootMultiples(x, n)
        rows == Matrix([i \in 1..n |-> [j \in 1..(n + 1) |->
                    IF j <= n THEN cols[j][i]
                    ELSE IF i = 1 THEN R1 ELSE R0]])
        solved == Eliminate(rows, 1)
    IN  IF n = 1 THEN <<RInv(x[1])>>
        ELSE IF n = 2 THEN AlgInv2(x)
        ELSE IF n = 3 THEN AlgInv3(x)
        ELSE Tuple([i \in 1..n |-> solved[i][n + 1]])

(***************************************************************************)
(* Smoothed values: floats whose parts are elements of Q(r).               *)
(***************************************************************************)
\* a float as a smoothed value
Lift(v, n) ==
    [k |-> v.k, h |-> AlgOfRat(v.h, n), a |-> AlgOfRat(v.a, n),
     l |-> AlgOfRat(v.l, n)]

SAdd(u, v) ==
    LET n == Len(u.a)
    IN  IF u.k = "nan" \/ v.k = "nan" THEN Lift(NaN, n)
        ELSE IF u.k = "inf" \/ v.k = "inf" THEN Lift(Inf, n)
        ELSE [k |-> "num", h |-> AlgAdd(u.h, v.h), a |-> AlgAdd(u.a, v.a),
              l |-> AlgAdd(u.l, v.l)]

\* a smoothed value times a positive weight
SMul(w, v) ==
    IF v.k # "num" THEN v
    ELSE [k |-> "num", h |-> AlgMul(w, v.h), a |-> AlgMul(w, v.a),
          l |-> AlgMul(w, v.l)]

\* the factor by which a weight decays per sample, 0.5 ^ (1 / halflife), as
\* an element of Q(r): with halflife = n / d samples in lowest terms it is
\* r^d = 2^-(d div n) * r^(d mod n), r = 0.5^(1/n)
Decay(halflife) ==
    LET n == halflife[1]
        d == halflife[2]
    IN  Tuple([i \in 1..n |->
                    IF i = (d % n) + 1 THEN <<1, Pow2(d \div n)>> ELSE R0])

\* ewm(halflife, min_periods=minp).mean() with adjust=True on a column
\* without NaN: pandas' recurrence
\*     old_wt *= decay; avg = (old_wt*avg + cur) / (old_wt + 1); old_wt += 1
\* state <<avg, old_wt>> after entry t.
\* a slip: the recurrence of adjust=False, y = q*y + (1 - q)*cur
EwmStepUnadjusted(prev, q, cur) ==
    <<SAdd(SMul(q, prev[1]),
           SMul(AlgAdd(AlgOne(Len(q)), AlgScale(RInt(-1), q)), cur)),
      AlgAdd(AlgMul(prev[2], q), AlgOne(Len(q)))>>

EwmStep(prev, q, cur) ==
    LET ow == AlgMul(prev[2], q)
        tot == AlgAdd(ow, AlgOne(Len(q)))
    IN  <<SMul(AlgInv(tot), SAdd(SMul(ow, prev[1]), cur)), tot>>

\* the states after the entries 1 .. t
RECURSIVE EwmStates(_, _, _)
EwmStates(col, q, t) ==
    IF t = 1 THEN <<<<Lift(col[1], Len(q)), AlgOne(Len(q))>>>>
    ELSE LET before == EwmStates(col, q, t - 1)
         IN  Append(before, EwmStep(before[t - 1], q, Lift(col[t], Len(q))))

EwmMean(col, halflife, minp) ==
    LET states == EwmStates(col, Decay(halflife), Len(col))
    IN  Tuple([t \in 1..Len(col) |->
                  IF t < Max(minp, 1) THEN Lift(NaN, halflife[1])
                  ELSE states[t][1]])

(***************************************************************************)
(* The helpers of dff_calc.                                                *)
(***************************************************************************)
low_background_offset_value == <<1, 20>>    \* 0.05

\* returns <<tau_0, tau_1, tau_2, min_per>>, for an integer frame rate.
\* tau_0 stays the exact product (the half-life is not truncated), and
\* int(fps / 10) is exact: a quotient that is not an integer lies at least
\* 1/10 from the next one.
_apply_units_and_corrections(fps_, t0, t1, t2) ==
    <<RMul(RInt(fps_), t0),
      IntOfProduct(fps_, t1),
      IntOfProduct(fps_, t2),
      Max(1, Trunc(Rat(fps_, 10)))>>

\* a slip: the invert flag ignored
InvertedIgnored(x, inv) == x

\* if invert: data = -data
Inverted(x, inv) == IF inv THEN Negate(x) ELSE x

\* the second rolling() of _calc_f0 refuses min_periods > window
_calc_f0_raises(t2, minp) == RollingRaises(t2, minp)

_calc_f0(x, t1, t2, minp) ==
    LET fr == DataFrame(T(x))
        cols == Matrix([j \in 1..NCols(fr) |->
                          RollingMin(BoxcarMean(Col(fr, j), t1), t2, minp)])
        mins == FromCols(cols)
    IN  Matrix([i \in 1..NRows(mins) |->
                  [j \in 1..NCols(mins) |-> AddEps(mins[i][j])]])

\* a slip: the offset subtracted from the baseline
LowBackgroundDenominatorMinus(f, off) == VSub(f, Num(off))

\* the denominator of the low-background ratio
LowBackgroundDenominator(f, off) == VAdd(f, Num(off))

\* one element of raw_calc, from the trace sample x and the baseline f
RawRatio(x, f, flag, off) ==
    IF flag
        THEN VDiv(VSub(VAdd(x, Num(RMul(RInt(2), off))), f),
                  LowBackgroundDenominator(f, off))
        ELSE VDiv(VSub(x, f), f)

\* numpy broadcasting of data.T against f0.to_numpy(): a 1-D array of
\* length n is taken as 1 x n, and an axis of length 1 is stretched.
Rows2D(x) == IF x.ndim = 1 THEN <<x.val>> ELSE x.val

\* a slip: every channel divided by the baseline of the first channel
raw_calc_first_baseline(fz, x, flag, off) ==
    LET dT == Rows2D(T(x))
        nr == Max(Len(dT), NRows(fz))
        nc == Max(Len(dT[1]), NCols(fz))
    IN  Matrix([i \in 1..nr |-> [j \in 1..nc |->
            RawRatio(FromInt(dT[IF Len(dT) = 1 THEN 1 ELSE i]
                               [IF Len(dT[1]) = 1 THEN 1 ELSE j]),
                     fz[IF NRows(fz) = 1 THEN 1 ELSE i][1],
                     flag, off)]])

raw_calc(fz, x, flag, off) ==
    LET dT == Rows2D(T(x))
        nr == Max(Len(dT), NRows(fz))
        nc == Max(Len(dT[1]), NCols(fz))
    IN  Matrix([i \in 1..nr |-> [j \in 1..nc |->
            RawRatio(FromInt(dT[IF Len(dT) = 1 THEN 1 ELSE i]
                               [IF Len(dT[1]) = 1 THEN 1 ELSE j]),
                     fz[IF NRows(fz) = 1 THEN 1 ELSE i]
                       [IF NCols(fz) = 1 THEN 1 ELSE j],
                     flag, off)]])

_calc_dff_unfiltered(fz, x, flag, off) == FillNa(raw_calc(fz, x, flag, off))

_filter_dff(unf, t0, minp) ==
    FillNa(FromCols(Matrix([j \in 1..NCols(unf) |->
                               EwmMean(Col(unf, j), t0, minp)])))

\* a slip: the 2-D result returned without the transpose
ReturnValueNoTranspose(x, smoothed) ==
    IF x.ndim = 1 THEN Matrix(<<Ravel(smoothed)>>) ELSE Matrix(smoothed)

\* the return statement of dff_calc
ReturnValue(x, smoothed) ==
    IF x.ndim = 1 THEN Matrix(<<Ravel(smoothed)>>)
    ELSE Matrix(Transpose(smoothed))

\* the whole call, as a function of its arguments
dff_calc(x, fps_, t0, t1, t2, inv, flag) ==
    LET u == _apply_units_and_corrections(fps_, t0, t1, t2)
    IN  IF _calc_f0_raises(u[3], u[4])
            THEN [raised |-> TRUE, value |-> <<>>]
            ELSE [raised |-> FALSE,
                  value |-> ReturnValue(Inverted(x, inv),
                      _filter_dff(
                          _calc_dff_unfiltered(
                              _calc_f0(Inverted(x, inv), u[2], u[3], u[4]),
                              Inverted(x, inv), flag,
                              low_background_offset_value),
                          u[1], u[4]))]

(***************************************************************************)
(* The explored calls.                                                     *)
(***************************************************************************)
Traces(n) == [1..n -> Vals]

Inputs ==
    {Arr1(xs) : xs \in UNION {Traces(n) : n \in 1..MaxT}}
    \cup {Arr2(rows) : rows \in UNION {[1..c -> Traces(n)] :
                                          c \in Channels, n \in 1..MaxT}}

\* valid parameters: fps > 0, tau_0 > 0 and both windows at least 1 sample
Parameters ==
    {p \in [fps : FpsSet, halflife : HalfLives, tau_1 : Tau1Set,
            tau_2 : Tau2Set] :
        /\ IntOfProduct(p.fps, p.tau_1) >= 1
        /\ IntOfProduct(p.fps, p.tau_2) >= 1}

Calls ==
    {[data |-> x, fps |-> p.fps,
      tau_0 |-> RDiv(p.halflife, RInt(p.fps)),
      tau_1 |-> p.tau_1, tau_2 |-> p.tau_2,
      invert |-> inv, low_background_flag |-> flag] :
        x \in Inputs, p \in Parameters, inv \in BOOLEAN, flag \in BOOLEAN}

Init ==
    /\ args \in Calls
    /\ data = args.data
    /\ tau_0 = args.tau_0
    /\ tau_1 = args.tau_1
    /\ tau_2 = args.tau_2
    /\ min_per = 0
    /\ f0 = <<>>
    /\ unfiltered_dff = <<>>
    /\ dff = <<>>
    /\ result = <<>>
    /\ pc = "units"

\* line 48
ApplyUnits ==
    /\ pc = "units"
    /\ LET u == _apply_units_and_corrections(args.fps, tau_0, tau_1, tau_2)
       IN  /\ tau_0' = u[1]
           /\ tau_1' = u[2]
           /\ tau_2' = u[3]
           /\ min_per' = u[4]
    /\ pc' = "invert"
    /\ UNCHANGED <<args, data, f0, unfiltered_dff, dff, result>>

\* lines 51-52
Invert ==
    /\ pc = "invert"
    /\ data' = Inverted(data, args.invert)
    /\ pc' = "f0"
    /\ UNCHANGED <<args, tau_0, tau_1, tau_2, min_per, f0, unfiltered_dff, dff,
                   result>>

\* line 54
CalcF0 ==
    /\ pc = "f0"
    /\ ~_calc_f0_raises(tau_2, min_per)
    /\ f0' = _calc_f0(data, tau_1, tau_2, min_per)
    /\ pc' = "unfiltered"
    /\ UNCHANGED <<args, data, tau_0, tau_1, tau_2, min_per, unfiltered_dff,
                   dff, result>>

\* line 54, when pandas raises ValueError: the call ends with the exception
CalcF0Raise ==
    /\ pc = "f0"
    /\ _calc_f0_raises(tau_2, min_per)
    /\ pc' = "raised"
    /\ UNCHANGED <<args, data, tau_0, tau_1, tau_2, min_per, f0,
                   unfiltered_dff, dff, result>>

\* line 55
CalcDffUnfiltered ==
    /\ pc = "unfiltered"
    /\ unfiltered_dff' = _calc_dff_unfiltered(f0, data, args.low_background_flag,
                                             low_background_offset_value)
    /\ pc' = "filter"
    /\ UNCHANGED <<args, data, tau_0, tau_1, tau_2, min_per, f0, dff, result>>

\* line 56
FilterDff ==
    /\ pc = "filter"
    /\ dff' = _filter_dff(unfiltered_dff, tau_0, min_per)
    /\ pc' = "return"
    /\ UNCHANGED <<args, data, tau_0, tau_1, tau_2, min_per, f0,
                   unfiltered_dff, result>>

\* lines 57-60
Return ==
    /\ pc = "return"
    /\ result' = ReturnValue(data, dff)
    /\ pc' = "done"
    /\ UNCHANGED <<args, data, tau_0, tau_1, tau_2, min_per, f0,
                   unfiltered_dff, dff>>

Next ==
    \/ ApplyUnits
    \/ Invert
    \/ CalcF0
    \/ CalcF0Raise
    \/ CalcDffUnfiltered
    \/ FilterDff
    \/ Return

Spec == Init /\ [][Next]_vars

(***************************************************************************)
(* Vocabulary of the properties.                                           *)
(***************************************************************************)
\* the call of the current behaviour, repeated on another array
CallWith(x, inv) ==
    dff_calc(x, args.fps, args.tau_0, args.tau_1, args.tau_2, inv,
             args.low_background_flag)

\* how the call ended
Outcome == [raised |-> pc = "raised", value |-> result]

AfterF0 == pc \in {"unfiltered", "filter", "return", "done"}
AfterUnfiltered == pc \in {"filter", "return", "done"}
AfterFilter == pc \in {"return", "done"}

\* every sample of the array is >= 0
NonNegative(x) ==
    \A i \in 1..Len(Rows2D(x)) :
        \A j \in 1..Len(Rows2D(x)[i]) : Rows2D(x)[i][j] >= 0

\* the three stages on one channel xs (a sequence of samples), with the
\* converted parameters of the current call
ChannelF0(xs) ==
    LET col == Tuple([t \in 1..Len(xs) |-> FromInt(xs[t])])
        m == RollingMin(BoxcarMean(col, tau_1), tau_2, min_per)
    IN  Tuple([t \in 1..Len(xs) |-> AddEps(m[t])])

ChannelRaw(xs) ==
    LET fz == ChannelF0(xs)
    IN  Tuple([t \in 1..Len(xs) |->
            LET r == RawRatio(FromInt(xs[t]), fz[t], args.low_background_flag,
                              low_background_offset_value)
            IN  IF r = NaN THEN Zero ELSE r])

\* the value 0 of the smoothed output (tau_0 is the half-life in samples)
SmoothedZero == Lift(Zero, tau_0[1])

ChannelDff(xs) ==
    LET e == EwmMean(ChannelRaw(xs), tau_0, min_per)
    IN  Tuple([t \in 1..Len(xs) |->
                    IF e[t].k = "nan" THEN SmoothedZero ELSE e[t]])

(***************************************************************************)
(* C1.  A 1-D trace of length T gives a single-row matrix of shape (1, T)  *)
(* whose values are those returned for the same trace passed as a (1, T)   *)
(* matrix.                                                                 *)
(***************************************************************************)
C1_OneDimAsSingleRow ==
    (pc = "done" /\ args.data.ndim = 1) =>
        /\ Len(result) = 1
        /\ Len(result[1]) = Len(args.data.val)
        /\ result = CallWith(Arr2(<<args.data.val>>), args.invert).value

(***************************************************************************)
(* C2.  A 2-D input of shape (C, T) gives an output of shape (C, T) whose  *)
(* entry (c, t) is the dF/F of channel c at timepoint t.                   *)
(***************************************************************************)
C2_ShapeAndOrder ==
    (pc = "done" /\ data.ndim = 2) =>
        /\ Len(result) = Len(data.val)
        /\ \A c \in 1..Len(data.val) :
              /\ Len(result[c]) = Len(data.val[c])
              /\ LET one == ChannelDff(data.val[c])
                 IN  \A t \in 1..Len(data.val[c]) : result[c][t] = one[t]

\* two channels of three samples whose rows differ and vary over time
C2_Witness ==
    /\ pc = "done"
    /\ data.ndim = 2
    /\ Len(data.val) = 2
    /\ Len(data.val[1]) = 3
    /\ result[1] # result[2]
    /\ result[1][2] # result[1][3]
    /\ result[1][3] # SmoothedZero

(***************************************************************************)
(* C3.  Channel independence: row i of the output is the single row        *)
(* returned for channel i alone.  The right-hand side reads row i and the  *)
(* parameters only, so inputs that differ in other channels agree on row i.*)
(***************************************************************************)
C3_ChannelIndependence ==
    (pc = "done" /\ args.data.ndim = 2) =>
        \A i \in 1..Len(args.data.val) :
            LET alone == CallWith(Arr2(<<args.data.val[i]>>), args.invert)
            IN  /\ ~alone.raised
                /\ alone.value = <<result[i]>>

\* two different channels with different, non-zero outputs
C3_Witness ==
    /\ pc = "done"
    /\ args.data.ndim = 2
    /\ Len(args.data.val) = 2
    /\ args.data.val[1] # args.data.val[2]
    /\ result[1] # result[2]
    /\ \E t \in 1..Len(result[1]) : result[1][t] # SmoothedZero
    /\ \E t \in 1..Len(result[2]) : result[2][t] # SmoothedZero

(***************************************************************************)
(* C4, as claimed.  Every output timepoint t < max(tau_1, tau_2) (in       *)
(* samples, t counted from 0) is exactly 0.                                *)
(***************************************************************************)
C4_WarmUpMaxTau ==
    (pc = "done" /\ data.ndim = 2) =>
        \A c \in 1..Len(result) : \A n \in 1..Len(result[c]) :
            (n - 1 < Max(tau_1, tau_2)) => result[c][n] = SmoothedZero

(***************************************************************************)
(* C4, amended.  In every output dff_calc returns, every timepoint         *)
(* t < tau_1 + min_per - 2 (in samples, t counted from 0) is exactly 0.    *)
(***************************************************************************)
C4_WarmUp ==
    (pc = "done") =>
        \A c \in 1..Len(result) : \A n \in 1..Len(result[c]) :
            (n - 1 < tau_1 + min_per - 2) => result[c][n] = SmoothedZero

\* a warm-up of two samples, and a non-zero value right after it
C4_Witness ==
    /\ pc = "done"
    /\ data.ndim = 2
    /\ tau_1 + min_per - 2 = 2
    /\ Len(result[1]) = 3
    /\ result[1][1] = SmoothedZero
    /\ result[1][2] = SmoothedZero
    /\ result[1][3] # SmoothedZero

(***************************************************************************)
(* C5, as claimed.  Every defined value of F0 is strictly positive, for    *)
(* every trace passed to _calc_f0, the negated one of invert=True included.*)
(***************************************************************************)
C5_F0Positive ==
    AfterF0 =>
        \A i \in 1..NRows(f0) : \A j \in 1..NCols(f0) :
            f0[i][j] # NaN => VLess(Zero, f0[i][j])

(***************************************************************************)
(* C5, amended.  Every defined value of F0 is strictly positive when every *)
(* sample of the trace passed to _calc_f0 is >= 0.                         *)
(***************************************************************************)
C5_F0PositiveNonNegative ==
    (AfterF0 /\ NonNegative(data)) =>
        \A i \in 1..NRows(f0) : \A j \in 1..NCols(f0) :
            f0[i][j] # NaN => VLess(Zero, f0[i][j])

\* a window of zeros: F0 is eps itself
C5_Witness ==
    /\ AfterF0
    /\ NonNegative(data)
    /\ \E i \in 1..NRows(f0) : \E j \in 1..NCols(f0) : f0[i][j] = eps
    /\ \E i \in 1..NRows(f0) : \E j \in 1..NCols(f0) : VLess(eps, f0[i][j])

(***************************************************************************)
(* C6.  Inversion symmetry: dff_calc(x, invert=True) ends as               *)
(* dff_calc(-x, invert=False) does, and its F0 is computed from -x.        *)
(***************************************************************************)
C6_InversionSymmetry ==
    /\ (args.invert /\ pc \in {"done", "raised"}) =>
            Outcome = CallWith(Negate(args.data), FALSE)
    /\ (args.invert /\ pc = "unfiltered") =>
            f0 = _calc_f0(Negate(args.data), tau_1, tau_2, min_per)

\* an inverted call whose output differs from that of the plain call
C6_Witness ==
    /\ pc = "done"
    /\ args.invert
    /\ args.data.ndim = 2
    /\ \E t \in 1..Len(result[1]) : result[1][t] # SmoothedZero
    /\ result # CallWith(args.data, FALSE).value

(***************************************************************************)
(* C7.  Low-background boundedness: with low_background_flag=True and a    *)
(* trace whose samples are all >= 0, wherever F0 is defined the            *)
(* denominator F0 + offset is at least offset, hence not zero, and the raw *)
(* ratio is finite.                                                        *)
(***************************************************************************)
C7_LowBackgroundBounded ==
    (AfterUnfiltered /\ args.low_background_flag /\ NonNegative(data)) =>
        LET off == low_background_offset_value
            raw == raw_calc(f0, data, TRUE, off)
        IN  \A i \in 1..NRows(raw) : \A j \in 1..NCols(raw) :
                LET f == f0[i][IF NCols(f0) = 1 THEN 1 ELSE j]
                    den == LowBackgroundDenominator(f, off)
                IN  f # NaN =>
                        /\ VLeq(Num(off), den)
                        /\ den # Zero
                        /\ IsFinite(raw[i][j])
                        /\ unfiltered_dff[i][j] = raw[i][j]

\* the trace is 0 where F0 is at its minimum eps
C7_Witness ==
    /\ AfterUnfiltered
    /\ args.low_background_flag
    /\ NonNegative(data)
    /\ data.ndim = 2
    /\ \E c \in 1..Len(data.val) : \E t \in 1..Len(data.val[c]) :
          /\ data.val[c][t] = 0
          /\ f0[t][c] = eps
          /\ IsFinite(unfiltered_dff[t][c])
          /\ unfiltered_dff[t][c] # Zero

(***************************************************************************)
(* C8.  For valid parameters (fps > 0, both windows at least one sample)   *)
(* dff_calc returns without raising, also when tau_2 < min_per.            *)
(***************************************************************************)
C8_NeverRaises == pc # "raised"

(***************************************************************************)
(* C9.  Stage 1 of the baseline is a centered boxcar mean: its value at t  *)
(* is the mean of the tau_1 samples of the window centered on t (pandas'   *)
(* center=True: the window ending (tau_1 - 1) div 2 samples after t), and  *)
(* it is undefined where that window leaves the trace at either edge.      *)
(***************************************************************************)
CenteredBoxcarMean(col, w) ==
    Tuple([t \in 1..Len(col) |->
                LET hi == t + ((w - 1) \div 2)
                    lo == hi - w + 1
                IN  IF lo < 1 \/ hi > Len(col) THEN NaN
                    ELSE VScale(<<1, w>>, SumRange(col, lo, hi))])

C9_CenteredBoxcar ==
    AfterF0 =>
        LET fr == DataFrame(T(data))
        IN  \A j \in 1..NCols(fr) :
                BoxcarMean(Col(fr, j), tau_1) = CenteredBoxcarMean(Col(fr, j), tau_1)

(***************************************************************************)
(* C10.  The smoother is causal and normalized: with r the raw ratio and   *)
(* w_i = 0.5^(i / tau_0), the output at t >= min_per - 1 (t from 0) is     *)
(* sum_{i=0..t} w_i r[t-i] / sum_{i=0..t} w_i and the output before is 0;  *)
(* a constant r is returned unchanged from min_per - 1 on.                 *)
(***************************************************************************)
HalfLifeWeight(i) ==
    LET n == tau_0[1]
        d == tau_0[2]
    IN  Tuple([j \in 1..n |->
                    IF j = ((d * i) % n) + 1 THEN <<1, Pow2((d * i) \div n)>>
                    ELSE R0])

RECURSIVE WeightedSum(_, _, _)
WeightedSum(col, t, i) ==
    IF i < 0 THEN SmoothedZero
    ELSE SAdd(SMul(HalfLifeWeight(i), Lift(col[t - i], tau_0[1])),
              WeightedSum(col, t, i - 1))

RECURSIVE WeightTotal(_)
WeightTotal(i) ==
    IF i < 0 THEN AlgZero(tau_0[1])
    ELSE AlgAdd(HalfLifeWeight(i), WeightTotal(i - 1))

C10_NormalizedCausalSmoother ==
    AfterFilter =>
        LET norm == Tuple([t \in 1..NRows(unfiltered_dff) |->
                              AlgInv(WeightTotal(t - 1))])
        IN  \A j \in 1..NCols(unfiltered_dff) :
                LET r == Col(unfiltered_dff, j)
                IN  \A t \in 1..NRows(unfiltered_dff) :
                        /\ t < min_per => dff[t][j] = SmoothedZero
                        /\ t >= min_per =>
                              dff[t][j] = SMul(norm[t], WeightedSum(r, t, t - 1))
                        /\ (t >= min_per /\ \A u \in 1..t : r[u] = r[1]) =>
                              dff[t][j] = Lift(r[1], tau_0[1])

\* a varying raw ratio, smoothed to a value that is neither the current
\* sample nor zero, after a zeroed start
C10_Witness ==
    /\ AfterFilter
    /\ min_per >= 2
    /\ \E j \in 1..NCols(unfiltered_dff) :
          /\ dff[1][j] = SmoothedZero
          /\ \E t \in 2..NRows(unfiltered_dff) :
                /\ t >= min_per
                /\ unfiltered_dff[t][j] # unfiltered_dff[t - 1][j]
                /\ unfiltered_dff[t - 1][j] # Zero
                /\ dff[t][j] # Lift(unfiltered_dff[t][j], tau_0[1])
                /\ dff[t][j] # SmoothedZero
====
